---- MODULE Spec2Model ----
(***************************************************************************)
(* A model of proxyChecker.py: the address filter (clean_addresses), the   *)
(* probe (isGoodProxy), the worker pool, the printer thread and the        *)
(* orchestration and shutdown sequence of the __main__ block.              *)
(*                                                                         *)
(* Strings are sequences of tokens.  A candidate line such as              *)
(* "1.2.3.4:8080" is the token sequence <<"1", ":", "80">>: the host       *)
(* tokens "0".."3" stand for the four addresses of a two-bit address       *)
(* space, "x" for text netaddr rejects, "80" for a numeric port and "abc"  *)
(* for a non-numeric one.  An exclusion entry is <<"0", "-", "1">> (a      *)
(* start-end range) or <<"2", "/", "1">> (a CIDR block).                   *)
(***************************************************************************)
EXTENDS Integers, Sequences, FiniteSets, TLC

\* ------------------------------------------------------------------ bounds
\* Longest candidate list / exclusion list of the filter specification.
MaxAddrs == 2
MaxExcl == 1
\* Longest candidate list of the pipeline specification.
MaxBatch == 1
\* Largest --num-workers value.
MaxWorkers == 2

\* ------------------------------------------------------------ string model
\* str.split(sep): the parts of s between the occurrences of sep.
RECURSIVE SplitFrom(_, _, _)
SplitFrom(s, sep, cur) ==
    IF s = <<>> THEN <<cur>>
    ELSE IF Head(s) = sep THEN <<cur>> \o SplitFrom(Tail(s), sep, <<>>)
    ELSE SplitFrom(Tail(s), sep, Append(cur, Head(s)))

Split(s, sep) == SplitFrom(s, sep, <<>>)

\* `sep in s`
Contains(s, sep) == \E i \in 1..Len(s) : s[i] = sep

\* ------------------------------------------------------------ netaddr model
IPTokens == {"0", "1", "2", "3"}

IPNumber(tok) == CASE tok = "0" -> 0 [] tok = "1" -> 1 [] tok = "2" -> 2 [] tok = "3" -> 3

PrefixTokens == {"0", "1", "2"}

\* Width of the modelled address space, in bits: the longest prefix.
AddrBits == Cardinality(PrefixTokens) - 1

\* netaddr.IPAddress(text): raises AddrFormatError unless text is an address.
IPAddressOk(text) == Len(text) = 1 /\ text[1] \in IPTokens

IPAddress(text) == IPNumber(text[1])

\* netaddr.IPRange(start, end): raises AddrFormatError for a bad bound or
\* a lower bound above the upper bound.
IPRangeOk(start, end) ==
    /\ IPAddressOk(start)
    /\ IPAddressOk(end)
    /\ IPAddress(start) <= IPAddress(end)

IPRange(start, end) == {n \in 0..(2^AddrBits - 1) : IPAddress(start) <= n /\ n <= IPAddress(end)}

\* netaddr.IPNetwork(block): an address, or address/prefix; the host bits of
\* the address are ignored (the network is the block holding the address).
IPNetworkOk(block) ==
    LET parts == Split(block, "/") IN
    \/ Len(parts) = 1 /\ IPAddressOk(parts[1])
    \/ /\ Len(parts) = 2
       /\ IPAddressOk(parts[1])
       /\ Len(parts[2]) = 1
       /\ parts[2][1] \in PrefixTokens

IPNetwork(block) ==
    LET parts == Split(block, "/")
        base == IPAddress(parts[1])
        prefix == IF Len(parts) = 1 THEN AddrBits ELSE IPNumber(parts[2][1])
        size == 2^(AddrBits - prefix)
    IN {n \in 0..(2^AddrBits - 1) : n \div size = base \div size}

\* ---------------------------------------------------------- clean_addresses
\* `(ip, port) = address.split(':')` raises ValueError unless there are
\* exactly two parts.
UnpackOk(address) == Len(Split(address, ":")) = 2

\* The host part handed to netaddr.IPAddress.
HostOf(address) == Split(address, ":")[1]

\* The first loop: the candidates that unpack and whose host parses.
ParsedAddresses(addresses) ==
    SelectSeq(addresses, LAMBDA a : IPAddressOk(HostOf(a)))

\* A blacklist loop that skips a block it cannot parse instead of raising.
ParseBlock_Skip(block) ==
    IF Contains(block, "-")
    THEN LET parts == Split(block, "-") IN
         IF Len(parts) = 2 /\ IPRangeOk(parts[1], parts[2])
         THEN [exc |-> "none", range |-> IPRange(parts[1], parts[2])]
         ELSE [exc |-> "none", range |-> {}]
    ELSE IF IPNetworkOk(block)
         THEN [exc |-> "none", range |-> IPNetwork(block)]
         ELSE [exc |-> "none", range |-> {}]

\* One pass of the blacklist loop: the parsed range, or the exception.
\* AddrFormatError is re-raised as Exception("Error importing blocks");
\* the ValueError of a failed unpack is not caught.
ParseBlock(block) ==
    IF Contains(block, "-")
    THEN LET parts == Split(block, "-") IN
         IF Len(parts) # 2 THEN [exc |-> "ValueError", range |-> {}]
         ELSE IF IPRangeOk(parts[1], parts[2])
              THEN [exc |-> "none", range |-> IPRange(parts[1], parts[2])]
              ELSE [exc |-> "Exception", range |-> {}]
    ELSE IF IPNetworkOk(block)
         THEN [exc |-> "none", range |-> IPNetwork(block)]
         ELSE [exc |-> "Exception", range |-> {}]

\* The exception of the first block that raises, "none" when none does.
RECURSIVE FirstBlockError(_)
FirstBlockError(blacklist) ==
    IF blacklist = <<>> THEN "none"
    ELSE IF ParseBlock(Head(blacklist)).exc # "none"
         THEN ParseBlock(Head(blacklist)).exc
         ELSE FirstBlockError(Tail(blacklist))

\* The last loop: the parsed candidates inside none of the ranges.
CleanAgainst(parsed, ranges) ==
    SelectSeq(parsed,
              LAMBDA a : \A j \in 1..Len(ranges) : IPAddress(HostOf(a)) \notin ranges[j])

\* clean_addresses(addresses, blacklist): [exc, value]; exc is "none" when
\* the call returns value, else the exception that leaves the call.
clean_addresses(addresses, blacklist) ==
    IF \E i \in 1..Len(addresses) : ~UnpackOk(addresses[i])
    THEN [exc |-> "ValueError", value |-> <<>>]
    ELSE IF FirstBlockError(blacklist) # "none"
    THEN [exc |-> FirstBlockError(blacklist), value |-> <<>>]
    ELSE LET parsed == ParsedAddresses(addresses)
             ranges == [j \in 1..Len(blacklist) |-> ParseBlock(blacklist[j]).range]
         IN IF ranges = <<>>
            THEN [exc |-> "none", value |-> parsed]
            ELSE [exc |-> "none", value |-> CleanAgainst(parsed, ranges)]

\* ----------------------------------------------------------- isGoodProxy
NoneText == "None"

\* The sentinel put on both queues (Python's None).
NoneItem == [sentinel |-> TRUE]

NoTime == [seconds |-> 0 - 1, microseconds |-> 0]

\* requests.get(target_address, timeout, proxies) through the proxy: the
\* network as seen from this run.  Each host answers in a fixed way:
\* kind is "response", or the exception class the call raises.
RequestsGet(proxy_string, proxy_type) ==
    LET host == proxy_string[1]
        port == proxy_string[Len(proxy_string)]
    IN  IF port # "80"
        THEN [kind |-> "InvalidURL", text |-> {}, elapsed |-> NoTime]
        ELSE IF host = "1"
        THEN IF proxy_type = "http"
             THEN [kind |-> "response", text |-> {"canary"},
                   elapsed |-> [seconds |-> 0, microseconds |-> 340000]]
             ELSE [kind |-> "response", text |-> {"canary", "myip"},
                   elapsed |-> [seconds |-> 1, microseconds |-> 260000]]
        ELSE IF host = "2"
        THEN IF proxy_type = "http"
             THEN [kind |-> "ConnectionError", text |-> {}, elapsed |-> NoTime]
             ELSE [kind |-> "Timeout", text |-> {}, elapsed |-> NoTime]
        ELSE IF host = "3" /\ proxy_type # "http"
        THEN [kind |-> "response", text |-> {"myip"},
              elapsed |-> [seconds |-> 0, microseconds |-> 990000]]
        ELSE [kind |-> "response", text |-> {},
              elapsed |-> [seconds |-> 2, microseconds |-> 60000]]

\* Line 36: 'socks' in proxy_type.lower() or 'http' in proxy_type.lower().
ProxyTypeAccepted(proxy_type) == proxy_type \in {"http", "socks4", "socks5"}

\* A connectivity error reported as a success with a zero latency.
ConnectivityFailureReturn_Success(proxy_string, proxy_type) ==
    [proxy_string |-> proxy_string, proxy_type |-> proxy_type,
     success |-> TRUE, response_time |-> [seconds |-> 0, microseconds |-> 0]]

\* Lines 47-52: the dict returned for requests' Timeout or ConnectionError.
ConnectivityFailureReturn(proxy_string, proxy_type) ==
    [proxy_string |-> proxy_string, proxy_type |-> proxy_type,
     success |-> FALSE, response_time |-> NoTime]

\* Lines 58-63: the dict returned for any other exception of the request.
UnexpectedErrorReturn(proxy_string, proxy_type) ==
    [proxy_string |-> proxy_string, proxy_type |-> proxy_type,
     success |-> FALSE, response_time |-> NoTime]

\* Either content check alone is taken as enough.
ContentSuccess_Either(present_flag, absent_flag) == present_flag \/ absent_flag

\* Line 73: success = present_flag and absent_flag.
ContentSuccess(present_flag, absent_flag) == present_flag /\ absent_flag

\* Lines 44-79: the dict returned for one outcome of the request.
ProbeReturn(got, proxy_string, proxy_type, present, absent) ==
    IF got.kind \in {"Timeout", "ConnectionError"}
    THEN ConnectivityFailureReturn(proxy_string, proxy_type)
    ELSE IF got.kind # "response"
    THEN UnexpectedErrorReturn(proxy_string, proxy_type)
    ELSE LET present_flag == (present = NoneText \/ present \in got.text)
             absent_flag == (absent = NoneText \/ absent \notin got.text)
         IN [proxy_string |-> proxy_string, proxy_type |-> proxy_type,
             success |-> ContentSuccess(present_flag, absent_flag),
             response_time |-> got.elapsed]

\* isGoodProxy(**proxy_data): [raised, results].  The proxy-type test of
\* line 36 raises outside the try block.
isGoodProxy(proxy_string, proxy_type, present, absent) ==
    IF ~ProxyTypeAccepted(proxy_type)
    THEN [raised |-> TRUE,
          results |-> [proxy_string |-> proxy_string, proxy_type |-> proxy_type,
                       success |-> FALSE, response_time |-> NoTime]]
    ELSE [raised |-> FALSE,
          results |-> ProbeReturn(RequestsGet(proxy_string, proxy_type),
                                  proxy_string, proxy_type, present, absent)]

\* --------------------------------------------------------------- printer
\* The divisor applied to response_time.microseconds on line 134.
MicroDivisor == 10000000

\* a / b rounded to the nearest integer.
RoundDiv(a, b) == (2 * a + b) \div (2 * b)

\* '{:.2f}'.format(seconds + microseconds / 10000000), in hundredths.
FormatLatency(response_time) ==
    response_time.seconds * 100 + RoundDiv(response_time.microseconds * 100, MicroDivisor)

\* The text of one output line: proxy_type, latency, proxy_string.
FormatLine(output_data) ==
    <<output_data.proxy_type, FormatLatency(output_data.response_time),
      output_data.proxy_string>>

\* ------------------------------------------------------------------ inputs
SeqsUpTo(S, n) == UNION {[1..k -> S] : k \in 0..n}

\* Candidate lines: well-formed ones, a non-numeric port, a host netaddr
\* rejects, no ':', two ':', and the empty line.
WellFormedLines == {<<"0", ":", "80">>, <<"1", ":", "80">>, <<"2", ":", "80">>}

CandidateLines ==
    WellFormedLines \cup
    {<<"3", ":", "abc">>, <<"x", ":", "80">>, <<"1">>, <<"1", ":", "80", ":", "80">>, <<>>}

\* Exclusion entries: CIDR blocks, a start-end range, and malformed ones
\* (not an address, lower bound above upper bound, two '-').
ValidBlocks == {<<"2", "/", "2">>, <<"2", "/", "1">>, <<"0", "-", "1">>}

ExclusionEntries ==
    ValidBlocks \cup {<<"x">>, <<"3", "-", "1">>, <<"1", "-", "2", "-", "3">>}

\* args.proxy_type as the loop of line 279 sees it.  Without --proxy-type
\* it is the str 'http', and iterating a str yields its characters.
DefaultProxyType == <<"h", "t", "t", "p">>

ProxyTypeArgs == {DefaultProxyType, <<>>, <<"http">>, <<"http", "socks5">>}

\* (--text-present, --text-absent): neither given, or both.
TextArgs == {<<NoneText, NoneText>>, <<"canary", "myip">>}

\* Lines of the pipeline runs: a proxy that answers, one that refuses the
\* connection or times out, and a line without ':'.
PipelineLines == {<<"1", ":", "80">>, <<"2", ":", "80">>, <<"1">>}

\* Exclusion lists of the pipeline runs: none, one block, one malformed.
PipelineExclusions == {<<>>, <<<<"2", "/", "2">>>>, <<<<"x">>>>}

\* ------------------------------------------------------------------- state
VARIABLES
    loaded_proxies,     \* the input lines (line 258)
    exclusions,         \* the exclusion-list lines (line 264)
    proxy_type,         \* args.proxy_type
    num_workers,        \* args.num_workers
    text_present,       \* args.text_present
    text_absent,        \* args.text_absent
    main_pc,            \* position of the main thread
    main_exc,           \* the exception that ended the main thread, or "none"
    good_proxies,       \* result of clean_addresses (line 275)
    work_queue,         \* items of work_queue
    work_unfinished,    \* work_queue.unfinished_tasks
    result_queue,       \* items of result_queue
    result_unfinished,  \* result_queue.unfinished_tasks
    started,            \* workers started so far (loop of line 296)
    stop_sent,          \* sentinels put so far (loop of line 328)
    wpc,                \* position of each worker thread
    wtask,              \* proxy_data of each worker
    wresult,            \* results of each worker
    ppc,                \* position of the printer thread
    pitem,              \* output_data of the printer
    output,             \* what has been written to out_handle
    batch,              \* the tasks put on work_queue by line 280, in order
    probes,             \* per task id, the number of isGoodProxy calls
    write_failed        \* out_handle.write has raised

vars == <<loaded_proxies, exclusions, proxy_type, num_workers, text_present,
          text_absent, main_pc, main_exc, good_proxies, work_queue,
          work_unfinished, result_queue, result_unfinished, started, stop_sent,
          wpc, wtask, wresult, ppc, pitem, output, batch, probes, write_failed>>

inputs == <<loaded_proxies, exclusions, proxy_type, num_workers, text_present,
            text_absent>>

Workers == 1..MaxWorkers

NoResult == [proxy_string |-> <<>>, proxy_type |-> "", success |-> FALSE,
             response_time |-> NoTime]

\* The state after argument parsing and input reading (line 272).
Start ==
    /\ main_pc = "clean"
    /\ main_exc = "none"
    /\ good_proxies = <<>>
    /\ work_queue = <<>>
    /\ work_unfinished = 0
    /\ result_queue = <<>>
    /\ result_unfinished = 0
    /\ started = 0
    /\ stop_sent = 0
    /\ wpc = [w \in Workers |-> "unstarted"]
    /\ wtask = [w \in Workers |-> NoneItem]
    /\ wresult = [w \in Workers |-> NoResult]
    /\ ppc = "unstarted"
    /\ pitem = NoneItem
    /\ output = <<>>
    /\ batch = <<>>
    /\ probes = <<>>
    /\ write_failed = FALSE

\* Runs of the pipeline: short batches, every worker count and option.
Init ==
    /\ loaded_proxies \in SeqsUpTo(PipelineLines, MaxBatch)
    /\ exclusions \in PipelineExclusions
    /\ proxy_type \in ProxyTypeArgs
    /\ num_workers \in 0..MaxWorkers
    /\ \E t \in TextArgs : text_present = t[1] /\ text_absent = t[2]
    /\ Start

\* Lines of the probe runs: one proxy per kind of response body.
ProbeLines == {<<"0", ":", "80">>, <<"1", ":", "80">>, <<"2", ":", "80">>, <<"3", ":", "80">>}

\* Runs that exercise the content checks: every combination of the two
\* text options, one worker, one variant at a time.
InitProbe ==
    /\ loaded_proxies \in SeqsUpTo(ProbeLines, MaxBatch)
    /\ exclusions = <<>>
    /\ proxy_type \in {<<"http">>, <<"socks5">>}
    /\ num_workers = 1
    /\ text_present \in {NoneText, "canary"}
    /\ text_absent \in {NoneText, "myip"}
    /\ Start

\* Runs that exercise the filter: longer lists, one worker, one variant.
InitFilter ==
    /\ loaded_proxies \in SeqsUpTo(CandidateLines, MaxAddrs)
    /\ exclusions \in SeqsUpTo(ExclusionEntries, MaxExcl)
    /\ proxy_type = <<"http">>
    /\ num_workers = 1
    /\ text_present = NoneText
    /\ text_absent = NoneText
    /\ Start

\* ------------------------------------------------------------ queue model
\* queue.Queue: put appends and counts the item as unfinished, get removes
\* the oldest item (blocking while the queue is empty), task_done counts one
\* item as finished and join returns once no item is unfinished.
Enqueue(q, item) == Append(q, item)

\* A get that reads the oldest item and leaves it in the queue.
Dequeue_Peek(q) == q

Dequeue(q) == Tail(q)

\* A join that does not wait.
JoinReturns_NoWait(unfinished) == TRUE

JoinReturns(unfinished) == unfinished = 0

\* ------------------------------------------------------------ main thread
\* Lines 277-287: one task per surviving address and per element of
\* args.proxy_type, address-major.  id is the position in the queue.
FillTasks(good, types) ==
    [k \in 1..(Len(good) * Len(types)) |->
        [id |-> k,
         proxy_string |-> good[((k - 1) \div Len(types)) + 1],
         proxy_type |-> types[((k - 1) % Len(types)) + 1]]]

\* Line 275.  An exception of clean_addresses ends the main thread.
MainClean ==
    /\ main_pc = "clean"
    /\ LET r == clean_addresses(loaded_proxies, exclusions) IN
       IF r.exc # "none"
       THEN /\ main_pc' = "error"
            /\ main_exc' = r.exc
            /\ UNCHANGED good_proxies
       ELSE /\ main_pc' = "fill"
            /\ good_proxies' = r.value
            /\ UNCHANGED main_exc
    /\ UNCHANGED <<inputs, work_queue, work_unfinished, result_queue,
                   result_unfinished, started, stop_sent, wpc, wtask, wresult,
                   ppc, pitem, output, batch, probes, write_failed>>

\* Lines 277-291.
MainFill ==
    /\ main_pc = "fill"
    /\ LET tasks == FillTasks(good_proxies, proxy_type) IN
       /\ work_queue' = tasks
       /\ work_unfinished' = Len(tasks)
       /\ batch' = tasks
       /\ probes' = [k \in 1..Len(tasks) |-> 0]
    /\ good_proxies' = <<>>
    /\ main_pc' = "start_workers"
    /\ UNCHANGED <<inputs, main_exc, result_queue, result_unfinished, started,
                   stop_sent, wpc, wtask, wresult, ppc, pitem, output,
                   write_failed>>

\* Lines 296-303: one pass of the loop starts one worker thread.
MainStartWorker ==
    /\ main_pc = "start_workers"
    /\ started < num_workers
    /\ started' = started + 1
    /\ wpc' = [wpc EXCEPT ![started + 1] = "get"]
    /\ UNCHANGED <<inputs, main_pc, main_exc, good_proxies, work_queue,
                   work_unfinished, result_queue, result_unfinished, stop_sent,
                   wtask, wresult, ppc, pitem, output, batch, probes, write_failed>>

\* Lines 306-309, after the loop: sys.stdout, or open(args.output, 'w+'),
\* which raises OSError when the destination cannot be opened.
MainOpenOutput ==
    /\ main_pc = "start_workers"
    /\ started = num_workers
    /\ \E opened \in BOOLEAN :
          IF opened
          THEN main_pc' = "start_printer" /\ UNCHANGED main_exc
          ELSE main_pc' = "error" /\ main_exc' = "OSError"
    /\ UNCHANGED <<inputs, good_proxies, work_queue, work_unfinished,
                   result_queue, result_unfinished, started, stop_sent, wpc,
                   wtask, wresult, ppc, pitem, output, batch, probes, write_failed>>

\* Lines 313-318.
MainStartPrinter ==
    /\ main_pc = "start_printer"
    /\ ppc' = "get"
    /\ main_pc' = "join_work"
    /\ UNCHANGED <<inputs, main_exc, good_proxies, work_queue, work_unfinished,
                   result_queue, result_unfinished, started, stop_sent, wpc,
                   wtask, wresult, pitem, output, batch, probes, write_failed>>

\* Line 321: work_queue.join().
MainJoinWork ==
    /\ main_pc = "join_work"
    /\ JoinReturns(work_unfinished)
    /\ main_pc' = "join_result"
    /\ UNCHANGED <<inputs, main_exc, good_proxies, work_queue, work_unfinished,
                   result_queue, result_unfinished, started, stop_sent, wpc,
                   wtask, wresult, ppc, pitem, output, batch, probes, write_failed>>

\* Line 324: result_queue.join().
MainJoinResult ==
    /\ main_pc = "join_result"
    /\ JoinReturns(result_unfinished)
    /\ main_pc' = "stop_workers"
    /\ UNCHANGED <<inputs, main_exc, good_proxies, work_queue, work_unfinished,
                   result_queue, result_unfinished, started, stop_sent, wpc,
                   wtask, wresult, ppc, pitem, output, batch, probes, write_failed>>

\* One stop signal too few.
SentinelsNeeded_OneShort == num_workers - 1

\* One stop signal more than there are workers.
SentinelsNeeded_OneMore == num_workers + 1

\* Line 328: range(args.num_workers), the number of stop signals.
SentinelsNeeded == num_workers

\* Lines 328-329: one pass of the loop puts one None on work_queue.
MainPutSentinel ==
    /\ main_pc = "stop_workers"
    /\ stop_sent < SentinelsNeeded
    /\ work_queue' = Enqueue(work_queue, NoneItem)
    /\ work_unfinished' = work_unfinished + 1
    /\ stop_sent' = stop_sent + 1
    /\ UNCHANGED <<inputs, main_pc, main_exc, good_proxies, result_queue,
                   result_unfinished, started, wpc, wtask, wresult, ppc, pitem,
                   output, batch, probes, write_failed>>

\* Line 330: result_queue.put(None).
MainPutResultSentinel ==
    /\ main_pc = "stop_workers"
    /\ stop_sent >= SentinelsNeeded
    /\ result_queue' = Enqueue(result_queue, NoneItem)
    /\ result_unfinished' = result_unfinished + 1
    /\ main_pc' = "join_workers"
    /\ UNCHANGED <<inputs, main_exc, good_proxies, work_queue, work_unfinished,
                   started, stop_sent, wpc, wtask, wresult, ppc, pitem, output,
                   batch, probes, write_failed>>

\* A thread that returned or died of an exception is no longer alive.
Finished(pc) == pc \in {"exited", "dead"}

\* Lines 331-332: w.join() for every worker.
MainJoinWorkers ==
    /\ main_pc = "join_workers"
    /\ \A w \in 1..num_workers : Finished(wpc[w])
    /\ main_pc' = "join_printer"
    /\ UNCHANGED <<inputs, main_exc, good_proxies, work_queue, work_unfinished,
                   result_queue, result_unfinished, started, stop_sent, wpc,
                   wtask, wresult, ppc, pitem, output, batch, probes, write_failed>>

\* Lines 333-337: output_worker.join().
MainJoinPrinter ==
    /\ main_pc = "join_printer"
    /\ Finished(ppc)
    /\ main_pc' = "done"
    /\ UNCHANGED <<inputs, main_exc, good_proxies, work_queue, work_unfinished,
                   result_queue, result_unfinished, started, stop_sent, wpc,
                   wtask, wresult, ppc, pitem, output, batch, probes, write_failed>>

Main ==
    \/ MainClean
    \/ MainFill
    \/ MainStartWorker
    \/ MainOpenOutput
    \/ MainStartPrinter
    \/ MainJoinWork
    \/ MainJoinResult
    \/ MainPutSentinel
    \/ MainPutResultSentinel
    \/ MainJoinWorkers
    \/ MainJoinPrinter

\* ----------------------------------------------------------------- worker
\* A get that also waits until no other worker is inside a probe.
GetReady_Serial(w) ==
    /\ work_queue # <<>>
    /\ \A v \in Workers : wpc[v] # "probe"

\* Line 92: work_queue.get() blocks until the queue holds an item.
GetReady(w) == work_queue # <<>>

\* Lines 92-94: work_queue.get(); None ends the loop.
WorkerGet(w) ==
    /\ wpc[w] = "get"
    /\ GetReady(w)
    /\ work_queue' = Dequeue(work_queue)
    /\ IF Head(work_queue) = NoneItem
       THEN /\ wpc' = [wpc EXCEPT ![w] = "exited"]
            /\ UNCHANGED wtask
       ELSE /\ wpc' = [wpc EXCEPT ![w] = "probe"]
            /\ wtask' = [wtask EXCEPT ![w] = Head(work_queue)]
    /\ UNCHANGED <<inputs, main_pc, main_exc, good_proxies, work_unfinished,
                   result_queue, result_unfinished, started, stop_sent, wresult,
                   ppc, pitem, output, batch, probes, write_failed>>

\* A worker that reports every result, failed ones too.
ShouldPut_Always(results) == TRUE

\* Line 101: the branch that puts the results.
ShouldPut(results) == results.success

\* Line 100: results = isGoodProxy(**proxy_data).  An exception leaving the
\* call ends the thread before work_queue.task_done().
WorkerProbe(w) ==
    /\ wpc[w] = "probe"
    /\ probes' = [probes EXCEPT ![wtask[w].id] = @ + 1]
    /\ LET r == isGoodProxy(wtask[w].proxy_string, wtask[w].proxy_type,
                            text_present, text_absent) IN
       IF r.raised
       THEN /\ wpc' = [wpc EXCEPT ![w] = "dead"]
            /\ UNCHANGED wresult
       ELSE /\ wresult' = [wresult EXCEPT ![w] = r.results]
            /\ wpc' = [wpc EXCEPT ![w] = IF ShouldPut(r.results) THEN "put" ELSE "task_done"]
    /\ UNCHANGED <<inputs, main_pc, main_exc, good_proxies, work_queue,
                   work_unfinished, result_queue, result_unfinished, started,
                   stop_sent, wtask, ppc, pitem, output, batch, write_failed>>

\* Line 106: result_queue.put(results).  id names the task it came from.
WorkerPut(w) ==
    /\ wpc[w] = "put"
    /\ result_queue' = Enqueue(result_queue,
                               [id |-> wtask[w].id,
                                proxy_string |-> wresult[w].proxy_string,
                                proxy_type |-> wresult[w].proxy_type,
                                success |-> wresult[w].success,
                                response_time |-> wresult[w].response_time])
    /\ result_unfinished' = result_unfinished + 1
    /\ wpc' = [wpc EXCEPT ![w] = "task_done"]
    /\ UNCHANGED <<inputs, main_pc, main_exc, good_proxies, work_queue,
                   work_unfinished, started, stop_sent, wtask, wresult, ppc,
                   pitem, output, batch, probes, write_failed>>

\* Line 113: work_queue.task_done(), then the next pass of the loop.
WorkerTaskDone(w) ==
    /\ wpc[w] = "task_done"
    /\ work_unfinished' = work_unfinished - 1
    /\ wpc' = [wpc EXCEPT ![w] = "get"]
    /\ wtask' = [wtask EXCEPT ![w] = NoneItem]
    /\ wresult' = [wresult EXCEPT ![w] = NoResult]
    /\ UNCHANGED <<inputs, main_pc, main_exc, good_proxies, work_queue,
                   result_queue, result_unfinished, started, stop_sent, ppc,
                   pitem, output, batch, probes, write_failed>>

worker(w) ==
    \/ WorkerGet(w)
    \/ WorkerProbe(w)
    \/ WorkerPut(w)
    \/ WorkerTaskDone(w)

\* ---------------------------------------------------------------- printer
\* Lines 125-127: result_queue.get(); None ends the loop.
PrinterGet ==
    /\ ppc = "get"
    /\ result_queue # <<>>
    /\ result_queue' = Dequeue(result_queue)
    /\ IF Head(result_queue) = NoneItem
       THEN ppc' = "exited" /\ UNCHANGED pitem
       ELSE ppc' = "write" /\ pitem' = Head(result_queue)
    /\ UNCHANGED <<inputs, main_pc, main_exc, good_proxies, work_queue,
                   work_unfinished, result_unfinished, started, stop_sent, wpc,
                   wtask, wresult, output, batch, probes, write_failed>>

\* Lines 132-138: the line, the "\n", then result_queue.task_done().  Either
\* write may raise, which ends the thread before task_done.
PrinterWrite ==
    /\ ppc = "write"
    /\ \E io \in {"ok", "line_fails", "newline_fails"} :
          LET line == [id |-> pitem.id, text |-> FormatLine(pitem), newline |-> io = "ok"] IN
          /\ output' = IF io = "line_fails" THEN output ELSE Append(output, line)
          /\ IF io = "ok"
             THEN /\ result_unfinished' = result_unfinished - 1
                  /\ ppc' = "get"
                  /\ pitem' = NoneItem
                  /\ UNCHANGED write_failed
             ELSE /\ write_failed' = TRUE
                  /\ ppc' = "dead"
                  /\ UNCHANGED <<result_unfinished, pitem>>
    /\ UNCHANGED <<inputs, main_pc, main_exc, good_proxies, work_queue,
                   work_unfinished, result_queue, started, stop_sent, wpc, wtask,
                   wresult, batch, probes>>

printer == PrinterGet \/ PrinterWrite

\* ----------------------------------------------------------- specifications
Next ==
    \/ Main
    \/ \E w \in Workers : worker(w)
    \/ printer

Spec == Init /\ [][Next]_vars

SpecFilter == InitFilter /\ [][Next]_vars

SpecProbe == InitProbe /\ [][Next]_vars

\* Threads are scheduled fairly: a thread that can take a step takes one.
Fairness ==
    /\ WF_vars(Main)
    /\ \A w \in Workers : WF_vars(worker(w))
    /\ WF_vars(printer)

FairSpec == Spec /\ Fairness

\* The worker whose probe may stay inside requests.get for as long as the
\* timeout allows: the first one started.
StuckWorker == CHOOSE w \in Workers : \A v \in Workers : w <= v

\* Fair scheduling in which the probe of StuckWorker need not return.
StuckFairness ==
    /\ WF_vars(Main)
    /\ WF_vars(printer)
    /\ \A w \in Workers : WF_vars(WorkerGet(w) \/ WorkerPut(w) \/ WorkerTaskDone(w))
    /\ \A w \in Workers \ {StuckWorker} : WF_vars(WorkerProbe(w))

StuckSpec == Spec /\ StuckFairness

\* ================================================================= claims
\* The probe of a task returns (it does not raise), and returns a success.
ProbeReturns(task) ==
    ~isGoodProxy(task.proxy_string, task.proxy_type, text_present, text_absent).raised

ProbeSucceeds(task) ==
    /\ ProbeReturns(task)
    /\ isGoodProxy(task.proxy_string, task.proxy_type, text_present, text_absent).results.success

\* The request of a task ends in a connectivity error.
ConnectivityError(task) ==
    /\ ProxyTypeAccepted(task.proxy_type)
    /\ RequestsGet(task.proxy_string, task.proxy_type).kind \in {"Timeout", "ConnectionError"}

\* A worker between retrieving a real task and the end of its task_done.
Holding(w) == wpc[w] \in {"probe", "put", "task_done"}

Alive(pc) == pc \in {"get", "probe", "put", "task_done", "write"}

\* The lines of the output written for task id.
LinesOf(id) == {i \in 1..Len(output) : output[i].id = id}

\* DONE: the main thread returned from every join, every thread has exited.
Done ==
    /\ main_pc = "done"
    /\ \A w \in 1..num_workers : wpc[w] = "exited"
    /\ ppc = "exited"

ProbeRaised == \E w \in Workers : wpc[w] = "dead"

OpenFailed == main_exc = "OSError"

\* The process has ended: no thread is left, all being non-daemon threads.
ProcessEnded ==
    /\ main_pc \in {"done", "error"}
    /\ \A w \in Workers : ~Alive(wpc[w])
    /\ ~Alive(ppc)

\* C1: under fair scheduling, a run with at least one worker whose batch has
\* been enqueued reaches DONE (both joins passed, every worker and the sink
\* exited, the main thread back from joining them), unless a probe call
\* raises or writing fails: a write to the output raises, or the output
\* destination cannot be opened for writing.
C1_RunReachesDone ==
    (main_pc = "start_workers" /\ num_workers >= 1)
        ~> (Done \/ ProbeRaised \/ write_failed \/ OpenFailed)

C1_Witness ==
    /\ Done
    /\ num_workers >= 2
    /\ Len(probes) >= 2
    /\ Len(output) >= 1

\* C2: once the SentinelOutcome is on the result queue, and so when the sink
\* exits on it, every task has been probed and marked done, no worker holds
\* a task, no outcome waits in the result queue or in the sink, and every
\* successful task has its line in the output.
C2_SinkExitsLast ==
    (ppc = "exited" \/ Contains(result_queue, NoneItem)) =>
        /\ \A id \in DOMAIN probes : probes[id] = 1
        /\ \A w \in Workers : ~Holding(w)
        /\ \A i \in 1..Len(work_queue) : work_queue[i] = NoneItem
        /\ \A i \in 1..Len(result_queue) : result_queue[i] = NoneItem
        /\ ppc # "write"
        /\ \A id \in DOMAIN probes :
              ProbeSucceeds(batch[id]) => Cardinality(LinesOf(id)) = 1

C2_Witness ==
    /\ ppc = "exited"
    /\ num_workers >= 2
    /\ Len(output) >= 2

\* C3: no task is probed twice, no task is held by two workers or held while
\* still in the work queue, and at DONE every task has been probed once.
C3_ProbedExactlyOnce ==
    /\ \A id \in DOMAIN probes : probes[id] <= 1
    /\ \A w1, w2 \in Workers :
          (Holding(w1) /\ Holding(w2) /\ wtask[w1].id = wtask[w2].id) => w1 = w2
    /\ \A w \in Workers : \A i \in 1..Len(work_queue) :
          Holding(w) => work_queue[i] # wtask[w]
    /\ main_pc = "done" => \A id \in DOMAIN probes : probes[id] = 1

C3_Witness ==
    /\ main_pc = "done"
    /\ Len(probes) >= 2
    /\ num_workers >= 2

\* C4: at DONE the output holds one complete line for each task whose probe
\* succeeded, carrying that task's variant and address, and nothing else.
C4_OutputIsSuccesses ==
    main_pc = "done" =>
        /\ \A id \in DOMAIN probes :
              Cardinality(LinesOf(id)) = IF ProbeSucceeds(batch[id]) THEN 1 ELSE 0
        /\ \A i \in 1..Len(output) :
              /\ output[i].id \in DOMAIN probes
              /\ output[i].newline
              /\ output[i].text[1] = batch[output[i].id].proxy_type
              /\ output[i].text[3] = batch[output[i].id].proxy_string

C4_Witness ==
    /\ main_pc = "done"
    /\ Len(output) >= 1
    /\ \E id \in DOMAIN probes : ~ProbeSucceeds(batch[id])

\* C5: whatever happens while a worker probes a task, the worker goes on to
\* task_done: no worker thread ends while it holds a retrieved task.
C5_ProbeContained ==
    \A w \in Workers : ~(wpc[w] = "dead" /\ wtask[w] # NoneItem)

\* C6: a task whose request ends in a connectivity error never reaches the
\* result queue, the sink or the output; once probed, its worker holds a
\* failed result and stands at task_done; the worker never dies on it.
C6_ConnectivityErrorIsFailure ==
    \A id \in DOMAIN probes :
        ConnectivityError(batch[id]) =>
            /\ \A i \in 1..Len(result_queue) :
                  result_queue[i] # NoneItem => result_queue[i].id # id
            /\ ppc = "write" => pitem.id # id
            /\ LinesOf(id) = {}
            /\ \A w \in Workers :
                  (wtask[w] # NoneItem /\ wtask[w].id = id) =>
                      /\ wpc[w] \in {"probe", "task_done"}
                      /\ wpc[w] = "task_done" => ~wresult[w].success
                      /\ wpc[w] = "probe" => probes[id] = 0
            /\ main_pc = "done" => probes[id] = 1

C6_Witness ==
    \E w \in Workers :
        /\ wpc[w] = "task_done"
        /\ ConnectivityError(wtask[w])
        /\ ~wresult[w].success

\* C7: after a failing write the run is not stuck: either some thread can
\* still take a step, or the process has ended in the error state.
C7_WriteFailureFatal ==
    write_failed => (ENABLED Next \/ (ProcessEnded /\ main_pc = "error"))

\* C8: when opening the output destination fails, no probe has been executed
\* and no worker is running or waiting on the work queue.
C8_OpenFailureAborts ==
    OpenFailed =>
        /\ \A id \in DOMAIN probes : probes[id] = 0
        /\ \A w \in Workers : ~Alive(wpc[w])

\* An exclusion entry that is neither a CIDR block nor a start-end range.
MalformedBlock(block) ==
    /\ ~IPNetworkOk(block)
    /\ ~(/\ Len(Split(block, "-")) = 2
         /\ IPRangeOk(Split(block, "-")[1], Split(block, "-")[2]))

HasMalformedBlock == \E j \in 1..Len(exclusions) : MalformedBlock(exclusions[j])

\* C9: with a malformed exclusion entry, clean_addresses raises and the main
\* thread ends there: the work queue is empty, no worker has been started
\* and no probe has run.
C9_MalformedExclusionAborts ==
    (HasMalformedBlock /\ main_pc # "clean") =>
        /\ main_pc = "error"
        /\ main_exc \in {"Exception", "ValueError"}
        /\ work_queue = <<>>
        /\ work_unfinished = 0
        /\ started = 0
        /\ \A w \in Workers : wpc[w] = "unstarted"
        /\ probes = <<>>

C9_Witness ==
    /\ main_pc = "error"
    /\ main_exc = "Exception"
    /\ HasMalformedBlock
    /\ loaded_proxies # <<>>
    /\ \A i \in 1..Len(loaded_proxies) : loaded_proxies[i] \in WellFormedLines

\* A candidate that parses into a valid host and a numeric port.
WellFormed(address) ==
    /\ Len(Split(address, ":")) = 2
    /\ IPAddressOk(Split(address, ":")[1])
    /\ Split(address, ":")[2] = <<"80">>

\* C10: with a valid exclusion list, a malformed candidate never ends the
\* run, and only well-formed candidates are returned by clean_addresses.
C10_MalformedCandidateDropped ==
    ~HasMalformedBlock =>
        /\ main_exc # "ValueError"
        /\ \A i \in 1..Len(good_proxies) : WellFormed(good_proxies[i])

\* The addresses of a parsed exclusion entry: a start-end range or a block.
BlockAddresses(block) ==
    IF Contains(block, "-")
    THEN IPRange(Split(block, "-")[1], Split(block, "-")[2])
    ELSE IPNetwork(block)

\* C11: when clean_addresses returns, it returns, in input order, exactly the
\* well-formed candidates whose host lies inside none of the exclusion
\* ranges; the input lists are left as they were.
C11_FilterExact ==
    main_pc = "fill" =>
        good_proxies =
            SelectSeq(loaded_proxies,
                      LAMBDA a : /\ WellFormed(a)
                                 /\ \A j \in 1..Len(exclusions) :
                                       IPAddress(HostOf(a)) \notin BlockAddresses(exclusions[j]))

\* The variants the command line asks for: those given with --proxy-type,
\* and http when the option is absent.
RequestedVariants == IF proxy_type = DefaultProxyType THEN <<"http">> ELSE proxy_type

\* The results put on the result queue so far: waiting, in the sink, written.
OutcomesReceived ==
    Len(SelectSeq(result_queue, LAMBDA r : r # NoneItem))
        + (IF ppc \in {"write", "dead"} THEN 1 ELSE 0) + Len(SelectSeq(output, LAMBDA l : l.newline))

\* C12: once the queue is filled, the number of tasks is (surviving
\* addresses) x (requested variants), each task carries a surviving address
\* and a requested variant, and the sink receives at most that many outcomes.
C12_TaskCount ==
    main_pc \notin {"clean", "fill", "error"} =>
        LET surviving == clean_addresses(loaded_proxies, exclusions).value IN
        /\ Len(batch) = Len(surviving) * Len(RequestedVariants)
        /\ \A k \in 1..Len(batch) :
              /\ Contains(surviving, batch[k].proxy_string)
              /\ Contains(RequestedVariants, batch[k].proxy_type)
        /\ OutcomesReceived <= Len(surviving) * Len(RequestedVariants)

\* The (variant, address) pairs of the output lines.
WrittenPairs == {<<output[i].text[1], output[i].text[3]>> : i \in 1..Len(output)}

\* The pairs the inputs and the probe responses determine: every surviving
\* address with every variant whose probe returns a success.
ExpectedPairs ==
    LET r == clean_addresses(loaded_proxies, exclusions)
        good == IF r.exc = "none" THEN r.value ELSE <<>>
    IN {<<proxy_type[j], good[i]>> : <<i, j>> \in
          {p \in (1..Len(good)) \X (1..Len(proxy_type)) :
              LET g == isGoodProxy(good[p[1]], proxy_type[p[2]], text_present, text_absent)
              IN ~g.raised /\ g.results.success}}

\* C13: the set of pairs written is a function of the input, the exclusion
\* list and the probe responses alone: whatever the interleaving and the
\* number of workers, nothing outside that set is ever written, and at DONE
\* the set written is exactly that set.
C13_SameSetWritten ==
    /\ WrittenPairs \subseteq ExpectedPairs
    /\ main_pc = "done" => WrittenPairs = ExpectedPairs

C13_Witness ==
    /\ main_pc = "done"
    /\ num_workers >= 2
    /\ Cardinality(WrittenPairs) >= 2
    /\ output[1].id > output[2].id

\* The body of the response a worker's current task obtained.
BodyOf(w) == RequestsGet(wtask[w].proxy_string, wtask[w].proxy_type).text

GotResponse(w) ==
    /\ wtask[w] # NoneItem
    /\ ProxyTypeAccepted(wtask[w].proxy_type)
    /\ RequestsGet(wtask[w].proxy_string, wtask[w].proxy_type).kind = "response"

\* C14: a probe that obtained a response is a success exactly when (no
\* must-contain text is configured or it occurs in the body) and (no
\* must-not-contain text is configured or it does not occur in the body);
\* a failed check is returned as success = False, the probe does not raise,
\* and the worker goes on to task_done without a put.
C14_ContentChecks ==
    \A w \in Workers :
        GotResponse(w) =>
            /\ wpc[w] # "dead"
            /\ wpc[w] \in {"put", "task_done"} =>
                  /\ wresult[w].success =
                        (/\ (text_present = NoneText \/ text_present \in BodyOf(w))
                         /\ (text_absent = NoneText \/ text_absent \notin BodyOf(w)))
                  /\ wpc[w] = "put" => wresult[w].success

\* A connection that succeeded, with the required text missing from the
\* body: the outcome is a failure.
C14_Witness ==
    \E w \in Workers :
        /\ GotResponse(w)
        /\ wpc[w] = "task_done"
        /\ text_present = "canary"
        /\ text_absent = "myip"
        /\ BodyOf(w) = {"myip"}
        /\ wresult[w].success = FALSE
        /\ wresult[w].response_time # NoTime

\* The elapsed time the probe of task id observed.
ElapsedOf(id) == RequestsGet(batch[id].proxy_string, batch[id].proxy_type).elapsed

\* C15: each output line has the fields protocol-variant, latency,
\* proxy-address in that order, and the latency is the elapsed time of the
\* probe in seconds to two decimal places: s + u/1000000 rounded to
\* hundredths (written here in hundredths of a second).
C15_LatencyFormat ==
    \A i \in 1..Len(output) :
        output[i].text =
            <<batch[output[i].id].proxy_type,
              ElapsedOf(output[i].id).seconds * 100
                  + RoundDiv(ElapsedOf(output[i].id).microseconds * 100, 1000000),
              batch[output[i].id].proxy_string>>

\* A worker between retrieving a real task and calling task_done for it; a
\* worker that died of an exception never calls it.
InFlight(w) == Holding(w) \/ wpc[w] = "dead"

\* C16: the step that puts the first None on the work queue is taken with
\* no task in flight: the unfinished count of the work queue is zero, no
\* worker is between retrieving a real task and task_done, no real task
\* remains in the work queue, and every task of the batch has been probed.
C16_FirstSentinelAfterDrain ==
    [][(stop_sent = 0 /\ stop_sent' > 0) =>
          /\ work_unfinished = 0
          /\ \A w \in Workers : ~InFlight(w)
          /\ work_queue = <<>>
          /\ work_queue' = <<NoneItem>>
          /\ \A id \in DOMAIN probes : probes[id] = 1]_vars

C16_Witness ==
    /\ stop_sent > 0
    /\ Contains(work_queue, NoneItem)
    /\ num_workers >= 2
    /\ Len(batch) >= 2
    /\ \A id \in DOMAIN probes : probes[id] = 1

NoneCount(queue) == Len(SelectSeq(queue, LAMBDA x : x = NoneItem))

ExitedWorkers == {w \in Workers : wpc[w] = "exited"}

\* The orchestrator has put the SentinelOutcome (it is past line 330).
PastStopping == main_pc \in {"join_workers", "join_printer", "done"}

\* C17: in STOPPING exactly num_workers sentinels are put on the work queue,
\* then exactly one on the result queue.  Every sentinel put is either
\* still queued or has made exactly one worker exit; a worker exits only
\* that way, with every task probed once and no probe made for a sentinel;
\* the sink exits only on the single result sentinel, the lines written
\* being those of real outcomes; at DONE both queues are empty.
C17_SentinelCounts ==
    /\ stop_sent <= num_workers
    /\ NoneCount(work_queue) + Cardinality(ExitedWorkers) = stop_sent
    /\ ExitedWorkers \subseteq 1..num_workers
    /\ PastStopping => stop_sent = num_workers
    /\ NoneCount(result_queue) + (IF ppc = "exited" THEN 1 ELSE 0)
          = (IF PastStopping THEN 1 ELSE 0)
    /\ stop_sent > 0 =>
          /\ DOMAIN probes = 1..Len(batch)
          /\ \A id \in DOMAIN probes : probes[id] = 1
    /\ ppc = "exited" =>
          /\ pitem = NoneItem
          /\ \A i \in 1..Len(output) : output[i].id \in 1..Len(batch) /\ output[i].newline
    /\ main_pc = "done" =>
          /\ work_queue = <<>>
          /\ result_queue = <<>>
          /\ ExitedWorkers = 1..num_workers
          /\ ppc = "exited"

C17_Witness ==
    /\ main_pc = "done"
    /\ num_workers >= 2
    /\ stop_sent = num_workers
    /\ Len(output) >= 1

\* The worker threads started so far (lines 296-303).
StartedWorkers == {w \in Workers : wpc[w] # "unstarted"}

\* C18: as long as the orchestrator has put no sentinel, every worker
\* thread started is alive, waiting on the work queue or processing a
\* task, whatever its earlier probes returned or raised.
C18_WorkersOutliveTasks ==
    stop_sent = 0 =>
        \A w \in StartedWorkers : wpc[w] \in {"get", "probe", "put", "task_done"}

\* Every task but the one StuckWorker holds has been probed, is held by no
\* worker, and has its line in the output if its probe succeeded.
OthersComplete ==
    /\ \A id \in DOMAIN probes \ {wtask[StuckWorker].id} :
          /\ probes[id] = 1
          /\ ProbeSucceeds(batch[id]) => \E i \in LinesOf(id) : output[i].newline
    /\ \A w \in Workers \ {StuckWorker} : ~Holding(w)

\* A request of StuckWorker is in flight (the variant passed line 36).
ProbeStuck ==
    /\ wpc[StuckWorker] = "probe"
    /\ ProxyTypeAccepted(wtask[StuckWorker].proxy_type)

\* C19: with at least two workers, while the probe of one worker has not
\* returned, fair scheduling of the other threads leads to every other
\* task probed by the remaining workers and every successful outcome of
\* theirs written, the stuck probe still pending, as long as the output
\* can be opened and written.
C19_StuckProbeDoesNotBlock ==
    (num_workers >= 2 /\ ProbeStuck)
        ~> (\/ ProbeStuck /\ OthersComplete
            \/ ~ProbeStuck
            \/ write_failed
            \/ OpenFailed)

C19_Witness ==
    /\ num_workers >= 2
    /\ ProbeStuck
    /\ OthersComplete
    /\ Len(batch) >= 2
    /\ Len(output) >= 1

\* The run ended with nothing probed, written or marked done: the only
\* items ever queued are the sentinels, none of which gets a task_done.
CleanEmptyEnd ==
    /\ Done
    /\ stop_sent = num_workers
    /\ work_queue = <<>>
    /\ result_queue = <<>>
    /\ work_unfinished = num_workers
    /\ result_unfinished = 1
    /\ probes = <<>>
    /\ output = <<>>

\* C20: with an empty batch, whatever the worker count (zero included),
\* fair scheduling leads from the start of the workers to the clean end:
\* both joins returned with no task_done made, num_workers sentinels and
\* one result sentinel delivered, every worker and the sink exited, no
\* probe made and nothing written, provided the output could be opened.
C20_EmptyBatchTerminates ==
    (main_pc = "start_workers" /\ batch = <<>>) ~> (CleanEmptyEnd \/ OpenFailed)

C20_Witness ==
    /\ CleanEmptyEnd
    /\ batch = <<>>
    /\ loaded_proxies # <<>>
    /\ proxy_type # <<>>
    /\ num_workers >= 2

====
